---- MODULE Spec2Model ----
(***************************************************************************)
(* Model of the FusionAuth node client: the ClientResponse envelope, the   *)
(* RESTClient request builder and its go() event handlers, and the         *)
(* FusionAuthClient facade with its promise-settling response handler.     *)
(*                                                                         *)
(* JavaScript values are tagged records.  Strings are sequences of tokens; *)
(* the characters the code inspects ("/", "?", "&", "=", ":") are tokens   *)
(* of their own.                                                           *)
(***************************************************************************)
EXTENDS Integers, Sequences, FiniteSets, TLC

(* ------------------------------ bounds --------------------------------- *)

\* facade calls that may be in flight together
NumCalls == 1

\* 'data' events delivered on one response stream
MaxChunks == 2

Calls == 1..NumCalls

(* --------------------------- JavaScript values ------------------------- *)

JNull == [t |-> "null"]

JUndef == [t |-> "undefined"]

Str(s) == [t |-> "string", s |-> s]

Num(n) == [t |-> "number", n |-> n]

Bool(b) == [t |-> "boolean", b |-> b]

Arr(items) == [t |-> "array", items |-> items]

Err(name) == [t |-> "error", name |-> name]

IsNullish(v) == v = JNull \/ v = JUndef

\* String(v) for the values that reach string concatenation
ToStr(v) ==
  CASE v.t = "string" -> v.s
    [] v.t = "boolean" -> IF v.b THEN <<"true">> ELSE <<"false">>
    [] v.t = "number" -> IF v.n = 1 THEN <<"1">> ELSE <<"11">>
    [] v.t = "null" -> <<"null">>
    [] OTHER -> <<"undefined">>

\* v >= n under JavaScript's ToNumber: null is 0, undefined is NaN
JsGE(v, n) ==
  CASE v.t = "number" -> v.n >= n
    [] v.t = "null" -> 0 >= n
    [] OTHER -> FALSE

\* v <= n under JavaScript's ToNumber
JsLE(v, n) ==
  CASE v.t = "number" -> v.n <= n
    [] v.t = "null" -> 0 <= n
    [] OTHER -> FALSE

(* ----------------------------- ClientResponse -------------------------- *)

NewClientResponse ==
  [statusCode |-> JNull, errorResponse |-> JNull,
   successResponse |-> JNull, exception |-> JNull]

\* wasSuccessful with the test of the exception left out
wasSuccessfulStatusOnly(r) ==
  JsGE(r.statusCode, 200) /\ JsLE(r.statusCode, 299)

wasSuccessful(r) ==
  JsGE(r.statusCode, 200) /\ JsLE(r.statusCode, 299) /\ r.exception = JNull

(* ------------------------------- JSON.parse ---------------------------- *)

IsDigits(s) == Len(s) > 0 /\ \A i \in 1..Len(s) : s[i] = "1"

\* the texts of the token alphabet that JSON.parse accepts: a number, or an
\* array holding at most one number
IsJSON(s) ==
  \/ IsDigits(s)
  \/ /\ Len(s) >= 2
     /\ s[1] = "["
     /\ s[Len(s)] = "]"
     /\ (Len(s) = 2 \/ IsDigits(SubSeq(s, 2, Len(s) - 1)))

\* the digits 1, 11, ... read as a number
DigitsValue(s) == IF Len(s) = 1 THEN 1 ELSE 11

JSONValue(s) ==
  IF IsDigits(s) THEN Num(DigitsValue(s))
  ELSE IF Len(s) = 2 THEN Arr(<<>>)
  ELSE Arr(<<Num(DigitsValue(SubSeq(s, 2, Len(s) - 1)))>>)

\* JSON.parse without the fallback to the text: what does not parse is
\* replaced by the SyntaxError
ParseOrError(data) == IF IsJSON(data) THEN JSONValue(data) ELSE Err("SyntaxError")

\* let json = data; try { json = JSON.parse(data) } catch (err) {}
ParseOrRaw(data) == IF IsJSON(data) THEN JSONValue(data) ELSE Str(data)

(* ------------------------------- RESTClient ---------------------------- *)

\* new RESTClient(); thrown records that a call in the chain raised a
\* TypeError, after which the rest of the chain is not executed
NewRESTClient ==
  [headers |-> <<>>, parameters |-> JNull, restUrl |-> JNull, body |-> JNull,
   certificate |-> JNull, key |-> JNull, method |-> JNull, thrown |-> FALSE]

Throw(b) == [b EXCEPT !.thrown = TRUE]

header(b, key, value) ==
  IF b.thrown THEN b
  ELSE [b EXCEPT !.headers = (key :> value) @@ b.headers]

authorization(b, key) == header(b, "Authorization", key)

\* ToBoolean(v), the test of 'if (v)'
Truthy(v) ==
  CASE v.t \in {"null", "undefined"} -> FALSE
    [] v.t = "string" -> Len(v.s) > 0
    [] v.t = "number" -> v.n # 0
    [] v.t = "boolean" -> v.b
    [] OTHER -> TRUE

\* credentials are strings of one character per token; the bytes new Buffer
\* gives for them
CharCode ==
  (":" :> 58) @@ ("a" :> 97) @@ ("b" :> 98) @@ ("c" :> 99) @@ ("e" :> 101)
  @@ ("p" :> 112) @@ ("r" :> 114) @@ ("s" :> 115) @@ ("t" :> 116)
  @@ ("u" :> 117) @@ ("w" :> 119)

Bytes(s) == [i \in 1..Len(s) |-> CharCode[s[i]]]

Base64Alphabet ==
  <<"A", "B", "C", "D", "E", "F", "G", "H", "I", "J", "K", "L", "M", "N", "O", "P",
    "Q", "R", "S", "T", "U", "V", "W", "X", "Y", "Z", "a", "b", "c", "d", "e", "f",
    "g", "h", "i", "j", "k", "l", "m", "n", "o", "p", "q", "r", "s", "t", "u", "v",
    "w", "x", "y", "z", "0", "1", "2", "3", "4", "5", "6", "7", "8", "9", "+", "/">>

Sextet(n) == Base64Alphabet[n + 1]

\* Buffer.toString('base64'): three bytes give four characters, a last group
\* of one or two bytes is padded with '='
RECURSIVE Base64(_)
Base64(bytes) ==
  IF Len(bytes) = 0 THEN <<>>
  ELSE IF Len(bytes) = 1
    THEN LET n == bytes[1] * 16
         IN <<Sextet(n \div 64), Sextet(n % 64), "=", "=">>
  ELSE IF Len(bytes) = 2
    THEN LET n == (bytes[1] * 256 + bytes[2]) * 4
         IN <<Sextet(n \div 4096), Sextet((n \div 64) % 64), Sextet(n % 64), "=">>
  ELSE LET n == bytes[1] * 65536 + bytes[2] * 256 + bytes[3]
       IN <<Sextet(n \div 262144), Sextet((n \div 4096) % 64),
            Sextet((n \div 64) % 64), Sextet(n % 64)>>
            \o Base64(SubSeq(bytes, 4, Len(bytes)))

\* basicAuthorization putting username:password into the header as it is
basicAuthorizationUnencoded(b, username, password) ==
  IF b.thrown THEN b
  ELSE IF Truthy(username) /\ Truthy(password)
    THEN header(b, "Authorization",
                Str(<<"Basic", " ">> \o ToStr(username) \o <<":">> \o ToStr(password)))
  ELSE b

basicAuthorization(b, username, password) ==
  IF b.thrown THEN b
  ELSE IF Truthy(username) /\ Truthy(password)
    THEN header(b, "Authorization",
                Str(<<"Basic", " ">>
                      \o Base64(Bytes(ToStr(username) \o <<":">> \o ToStr(password)))))
  ELSE b

setUrl(b, url) ==
  IF b.thrown THEN b ELSE [b EXCEPT !.restUrl = url]

LastIsSlash(s) == Len(s) > 0 /\ s[Len(s)] = "/"

FirstIsSlash(s) == Len(s) > 0 /\ s[1] = "/"

\* a null restUrl is not 'undefined', so this.restUrl.charAt raises
uri(b, u) ==
  IF b.thrown THEN b
  ELSE IF u = JNull \/ b.restUrl = JUndef THEN b
  ELSE IF b.restUrl.t # "string" THEN Throw(b)
  ELSE IF LastIsSlash(b.restUrl.s) /\ FirstIsSlash(u.s)
    THEN [b EXCEPT !.restUrl = Str(b.restUrl.s \o Tail(u.s))]
  ELSE IF ~LastIsSlash(b.restUrl.s) /\ ~FirstIsSlash(u.s)
    THEN [b EXCEPT !.restUrl = Str(b.restUrl.s \o <<"/">> \o u.s)]
  ELSE [b EXCEPT !.restUrl = Str(b.restUrl.s \o u.s)]

\* urlSegment with the separator appended before the test of the segment
urlSegmentSlashFirst(b, segment) ==
  IF b.thrown THEN b
  ELSE IF b.restUrl.t # "string" THEN (IF IsNullish(segment) THEN b ELSE Throw(b))
  ELSE LET slashed == IF LastIsSlash(b.restUrl.s) THEN b.restUrl.s
                      ELSE b.restUrl.s \o <<"/">>
       IN IF IsNullish(segment) THEN [b EXCEPT !.restUrl = Str(slashed)]
          ELSE [b EXCEPT !.restUrl = Str(slashed \o ToStr(segment))]

urlSegment(b, segment) ==
  IF b.thrown THEN b
  ELSE IF IsNullish(segment) THEN b
  ELSE IF b.restUrl.t # "string" THEN Throw(b)
  ELSE LET slashed == IF LastIsSlash(b.restUrl.s) THEN b.restUrl.s
                      ELSE b.restUrl.s \o <<"/">>
       IN [b EXCEPT !.restUrl = Str(slashed \o ToStr(segment))]

\* parameters is null or a sequence of [name, values] in insertion order
ParamIndex(entries, name) ==
  IF \E i \in 1..Len(entries) : entries[i].name = name
  THEN CHOOSE i \in 1..Len(entries) : entries[i].name = name
  ELSE 0

\* urlParameter replacing the values of the name instead of adding to them
urlParameterOverwrite(b, name, value) ==
  IF b.thrown THEN b
  ELSE IF IsNullish(value) THEN b
  ELSE LET entries == IF b.parameters = JNull THEN <<>> ELSE b.parameters.entries
           withName == IF ParamIndex(entries, name) = 0
                       THEN Append(entries, [name |-> name, values |-> <<>>])
                       ELSE entries
           i == ParamIndex(withName, name)
           pushed == IF value.t = "array" THEN value.items ELSE <<value>>
       IN [b EXCEPT !.parameters =
             [t |-> "object",
              entries |-> [withName EXCEPT ![i].values = pushed]]]

urlParameter(b, name, value) ==
  IF b.thrown THEN b
  ELSE IF IsNullish(value) THEN b
  ELSE LET entries == IF b.parameters = JNull THEN <<>> ELSE b.parameters.entries
           withName == IF ParamIndex(entries, name) = 0
                       THEN Append(entries, [name |-> name, values |-> <<>>])
                       ELSE entries
           i == ParamIndex(withName, name)
           pushed == IF value.t = "array" THEN value.items ELSE <<value>>
       IN [b EXCEPT !.parameters =
             [t |-> "object",
              entries |-> [withName EXCEPT ![i].values = @ \o pushed]]]

\* JSON.stringify of the request objects the facade is given
JSONStringify(v) ==
  CASE v.t = "number" -> <<"1">>
    [] v.t = "array" -> IF Len(v.items) = 0 THEN <<"[", "]">> ELSE <<"[", "1", "]">>
    [] OTHER -> <<"null">>

setJSONBody(b, body) ==
  IF b.thrown THEN b
  ELSE LET text == JSONStringify(body)
       IN header(header([b EXCEPT !.body = Str(text)],
                        "Content-Type", Str(<<"application/json">>)),
                 "Content-Length", Num(Len(text)))

setMethod(b, m) ==
  IF b.thrown THEN b ELSE [b EXCEPT !.method = Str(<<m>>)]

\* RESTClient.prototype has no member of this name: calling it raises a
\* TypeError (patch and setFormBody are used by the facade)
MissingMember(b) == Throw(b)

(* querystring.stringify(parameters) *)

\* stringifyPrimitive: a string, number or boolean as text, anything else
\* (null, undefined, an object) as the empty string
QsPrimitive(v) ==
  IF v.t \in {"string", "number", "boolean"} THEN ToStr(v) ELSE <<>>

RECURSIVE JoinValues(_, _)
JoinValues(name, values) ==
  IF Len(values) = 0 THEN <<>>
  ELSE LET rest == JoinValues(name, Tail(values))
       IN <<name, "=">> \o QsPrimitive(Head(values))
            \o (IF Len(rest) = 0 THEN <<>> ELSE <<"&">> \o rest)

RECURSIVE QueryStringify(_)
QueryStringify(entries) ==
  IF Len(entries) = 0 THEN <<>>
  ELSE LET first == JoinValues(Head(entries).name, Head(entries).values)
           rest == QueryStringify(Tail(entries))
       IN IF Len(first) = 0 THEN rest
          ELSE IF Len(rest) = 0 THEN first
          ELSE first \o <<"&">> \o rest

Contains(s, ch) == \E i \in 1..Len(s) : s[i] = ch

\* go writing the query after the path of restUrl, whatever query restUrl
\* had
GoUrlFresh(b) ==
  IF b.thrown THEN b
  ELSE IF b.parameters # JNull
    THEN IF b.restUrl.t # "string" THEN Throw(b)
         ELSE LET s == b.restUrl.s
                  n == IF Contains(s, "?")
                       THEN (CHOOSE i \in 1..Len(s) :
                               s[i] = "?" /\ \A j \in 1..(i - 1) : s[j] # "?") - 1
                       ELSE Len(s)
              IN [b EXCEPT !.restUrl =
                    Str(SubSeq(s, 1, n) \o <<"?">> \o QueryStringify(b.parameters.entries))]
  ELSE b

\* the first lines of go: serialize the parameters onto restUrl
GoUrl(b) ==
  IF b.thrown THEN b
  ELSE IF b.parameters # JNull
    THEN IF b.restUrl.t # "string" THEN Throw(b)
         ELSE LET q == IF Contains(b.restUrl.s, "?") THEN b.restUrl.s
                       ELSE b.restUrl.s \o <<"?">>
              IN [b EXCEPT !.restUrl = Str(q \o QueryStringify(b.parameters.entries))]
  ELSE b

\* url.parse(this.restUrl) raises a TypeError for a value that is no string
UrlParseThrows(b) == b.restUrl.t # "string"

Protocol(s) ==
  IF Len(s) >= 1 /\ s[1] \in {"http:", "https:"} THEN Str(<<s[1]>>) ELSE JNull

HasHost(s) == Len(s) >= 4 /\ Protocol(s) # JNull /\ s[2] = "/" /\ s[3] = "/"

Hostname(s) == IF HasHost(s) THEN Str(<<s[4]>>) ELSE JNull

UrlPort(s) ==
  IF HasHost(s) /\ Len(s) >= 6 /\ s[5] = ":" THEN Str(<<s[6]>>) ELSE JNull

UrlPath(s) ==
  LET from == IF UrlPort(s) # JNull THEN 7 ELSE IF HasHost(s) THEN 5 ELSE 1
      rest == SubSeq(s, from, Len(s))
  IN IF Len(rest) = 0 THEN Str(<<"/">>) ELSE Str(rest)

\* the options object handed to http.request, and the body written by
\* request.end
GoOptions(b) ==
  LET s == b.restUrl.s
      port == IF UrlPort(s) # JNull THEN UrlPort(s)
              ELSE IF Protocol(s) = Str(<<"http:">>) THEN Num(80)
              ELSE Num(443)
  IN [hostname |-> Hostname(s), port |-> port, path |-> UrlPath(s),
      method |-> b.method, headers |-> b.headers,
      myHttp |-> IF Protocol(s) = Str(<<"https:">>) THEN "https" ELSE "http",
      key |-> IF Protocol(s) = Str(<<"https:">>) THEN b.key ELSE JUndef,
      cert |-> IF Protocol(s) = Str(<<"https:">>) THEN b.certificate ELSE JUndef,
      body |-> b.body]

(* ---------------------------- FusionAuthClient ------------------------- *)

ApiKey == Str(<<"K">>)

GoodHost == Str(<<"http:", "/", "/", "h">>)

\* the URL of the users of GoodHost
CollectionPath == GoodHost.s \o <<"/", "api", "/", "user">>

\* the hosts a facade is constructed with
Hosts == {GoodHost, JNull, JUndef}

TenantIds == {JNull, JUndef, Str(<<"T1">>), Str(<<"T2">>)}

UserIds == {JNull, Str(<<"abc">>)}

Requests == {Arr(<<Num(1)>>)}

\* new FusionAuthClient(apiKey, host)
NewFusionAuthClient(apiKey, host) ==
  [apiKey |-> apiKey, host |-> host, tenantId |-> JNull]

\* _startAnonymous without the tenant header
_startAnonymousNoTenant(f) == setUrl(NewRESTClient, f.host)

_startAnonymous(f) ==
  LET client == setUrl(NewRESTClient, f.host)
  IN IF ~IsNullish(f.tenantId)
     THEN header(client, "X-FusionAuth-TenantId", f.tenantId)
     ELSE client

\* _start without the call of authorization
_startNoKey(f) == _startAnonymous(f)

_start(f) == authorization(_startAnonymous(f), f.apiKey)

\* the builder chains of the facade operations, up to the call of go
createUserChain(f, userId, request) ==
  setMethod(setJSONBody(urlSegment(uri(_start(f), Str(<<"/", "api", "/", "user">>)),
                                   userId), request), "POST")

deleteUserChain(f, userId) ==
  setMethod(urlParameter(urlSegment(uri(_start(f), Str(<<"/", "api", "/", "user">>)),
                                    userId), "hardDelete", Bool(TRUE)), "DELETE")

patchUserChain(f, userId, request) ==
  MissingMember(setJSONBody(urlSegment(uri(_start(f), Str(<<"/", "api", "/", "user">>)),
                                       userId), request))

clientCredentialsGrantChain(f) ==
  setMethod(MissingMember(uri(_startAnonymous(f), Str(<<"/", "oauth2", "/", "token">>))),
            "POST")

retrieveTenantsChain(f) ==
  setMethod(uri(_start(f), Str(<<"/", "api", "/", "tenant">>)), "GET")

\* 'Bearer ' + encodedJWT
Bearer(encodedJWT) == Str(<<"Bearer", " ">> \o ToStr(encodedJWT))

checkChangePasswordUsingJWTChain(f, encodedJWT) ==
  setMethod(authorization(uri(_startAnonymous(f),
                              Str(<<"/", "api", "/", "user", "/", "change-password">>)),
                          Bearer(encodedJWT)), "GET")

(* -------------------------------- state -------------------------------- *)

VARIABLES
  facade,      \* the FusionAuthClient: apiKey, host, tenantId
  wire,        \* per call: <<options>> handed to http.request, <<>> if none
  resp,        \* per call: the ClientResponse created by go
  net,         \* per call: what the transport has delivered so far
  promise,     \* per call: the promise the facade operation returned
  handed,      \* per call: the envelopes passed to responseHandler, in order
  probe,       \* an envelope under test, and what wasSuccessful returned for it
  bench,       \* a RESTClient driven call by call, with the calls made on it
  tracker      \* the JWTManager: the clock, revokedJWTs, the last isValid result

vars == <<facade, wire, resp, net, promise, handed, probe, bench, tracker>>

\* received is the text of the response body delivered so far
NoNet ==
  [req |-> "none", stream |-> "none", real |-> JNull, chunks |-> 0,
   received |-> <<>>]

NoPromise == [state |-> "none", value |-> JUndef]

\* the value a promise is settled with when the handler passes the
\* ClientResponse of call c
EnvelopeOf(c) == [t |-> "ClientResponse", of |-> c]

TypeError == Err("TypeError")

NoProbe == [env |-> NewClientResponse, result |-> JUndef]

\* rc is the client, prev the client before the last call, log the calls
\* made, sent the restUrl go has parsed (<<>> before go)
NoBench == [rc |-> NewRESTClient, prev |-> NewRESTClient, log |-> <<>>, sent |-> <<>>]

\* the tracker at time 0, with no subject revoked and no isValid call made;
\* revoked lists the calls of revoke, asked holds the last call of isValid
NoTracker == [now |-> 0, revokedJWTs |-> <<>>, revoked |-> <<>>, asked |-> <<>>]

Init ==
  /\ facade \in {NewFusionAuthClient(ApiKey, h) : h \in Hosts}
  /\ wire = [c \in Calls |-> <<>>]
  /\ resp = [c \in Calls |-> NewClientResponse]
  /\ net = [c \in Calls |-> NoNet]
  /\ promise = [c \in Calls |-> NoPromise]
  /\ handed = [c \in Calls |-> <<>>]
  /\ probe = NoProbe
  /\ bench = NoBench
  /\ tracker = NoTracker

(* ------------------------------ operations ----------------------------- *)

\* setTenantId writing the header into the requests already issued as well
setTenantIdRetroactive(t) ==
  /\ facade' = [facade EXCEPT !.tenantId = t]
  /\ wire' = [c \in Calls |->
               IF wire[c] = <<>> THEN <<>>
               ELSE <<[wire[c][1] EXCEPT !.headers =
                         ("X-FusionAuth-TenantId" :> t) @@ @]>>]
  /\ UNCHANGED <<resp, net, promise, handed, probe, bench, tracker>>

\* changes only the headers of later calls; NextTenant has it, Next (whose
\* properties concern the events of a request already built) has not
setTenantId(t) ==
  /\ facade' = [facade EXCEPT !.tenantId = t]
  /\ UNCHANGED <<wire, resp, net, promise, handed, probe, bench, tracker>>

\* calls are numbered in the order they are issued
CanIssue(c) ==
  /\ promise[c].state = "none"
  /\ \A d \in Calls : d < c => promise[d].state # "none"

\* new Promise((resolve, reject) => { chain.go(handler) }): an exception
\* raised inside the executor rejects the promise with the exception
Issue(c, chain) ==
  LET b == GoUrl(chain)
  IN /\ CanIssue(c)
     /\ IF b.thrown \/ UrlParseThrows(b)
        THEN /\ promise' = [promise EXCEPT ![c] =
                              [state |-> "rejected", value |-> TypeError]]
             /\ UNCHANGED <<wire, net>>
        ELSE /\ promise' = [promise EXCEPT ![c] =
                              [state |-> "pending", value |-> JUndef]]
             /\ wire' = [wire EXCEPT ![c] = <<GoOptions(b)>>]
             /\ net' = [net EXCEPT ![c].req = "sent"]
     /\ resp' = [resp EXCEPT ![c] = NewClientResponse]
     /\ UNCHANGED <<facade, handed, probe, bench, tracker>>

createUser(c) ==
  \E userId \in UserIds, request \in Requests :
    Issue(c, createUserChain(facade, userId, request))

deleteUser(c) ==
  \E userId \in UserIds : Issue(c, deleteUserChain(facade, userId))

patchUser(c) ==
  \E userId \in UserIds, request \in Requests :
    Issue(c, patchUserChain(facade, userId, request))

clientCredentialsGrant(c) == Issue(c, clientCredentialsGrantChain(facade))

retrieveTenants(c) == Issue(c, retrieveTenantsChain(facade))

JWTs == {Str(<<"jwt">>)}

checkChangePasswordUsingJWT(c) ==
  \E encodedJWT \in JWTs :
    Issue(c, checkChangePasswordUsingJWTChain(facade, encodedJWT))

\* _responseHandler with resolve called on both branches
_responseHandlerAlwaysResolve(c, r) ==
  /\ handed' = [handed EXCEPT ![c] = Append(@, r)]
  /\ IF promise[c].state = "pending"
     THEN promise' = [promise EXCEPT ![c] =
                        [state |-> "resolved", value |-> EnvelopeOf(c)]]
     ELSE UNCHANGED promise

\* the function returned by _responseHandler(resolve, reject), applied to
\* the envelope r of call c; resolve and reject act on a pending promise only
_responseHandler(c, r) ==
  /\ handed' = [handed EXCEPT ![c] = Append(@, r)]
  /\ IF promise[c].state = "pending"
     THEN promise' = [promise EXCEPT ![c] =
                        [state |-> IF wasSuccessful(r) THEN "resolved"
                                   ELSE "rejected",
                         value |-> EnvelopeOf(c)]]
     ELSE UNCHANGED promise

(* the event handlers go installs *)

Statuses == {200, 404}

ChunkTexts == {<<"1">>, <<"]">>}

\* the response callback writing the status into one ClientResponse that
\* all the calls share
onResponseShared(c, status) ==
  /\ net[c].req = "sent"
  /\ net[c].stream = "none"
  /\ resp' = [d \in DOMAIN resp |-> [resp[d] EXCEPT !.statusCode = Num(status)]]
  /\ net' = [net EXCEPT ![c].stream = "open", ![c].real = Num(status)]
  /\ UNCHANGED <<facade, wire, promise, handed, probe, bench, tracker>>

\* myHttp.request(options, function(response) { ... })
onResponse(c, status) ==
  /\ net[c].req = "sent"
  /\ net[c].stream = "none"
  /\ resp' = [resp EXCEPT ![c].statusCode = Num(status)]
  /\ net' = [net EXCEPT ![c].stream = "open", ![c].real = Num(status)]
  /\ UNCHANGED <<facade, wire, promise, handed, probe, bench, tracker>>

\* response.on('data', ...)
onData(c, data) ==
  /\ net[c].stream = "open"
  /\ net[c].chunks < MaxChunks
  /\ LET json == ParseOrRaw(data)
     IN resp' = IF wasSuccessful(resp[c])
                THEN [resp EXCEPT ![c].successResponse = json]
                ELSE [resp EXCEPT ![c].errorResponse = json]
  /\ net' = [net EXCEPT ![c].chunks = @ + 1, ![c].received = @ \o data]
  /\ UNCHANGED <<facade, wire, promise, handed, probe, bench, tracker>>

\* response.on('error', ...); whether the stream is destroyed by the error
\* (no 'data' or 'end' follows) depends on the platform.  The listener for
\* 'exception' has the same body; a response stream emits no such event.
onResponseError(c, destroyed) ==
  /\ net[c].stream = "open"
  /\ resp' = [resp EXCEPT ![c].exception = Err("response")]
  /\ net' = [net EXCEPT ![c].stream = IF destroyed THEN "closed" ELSE "open"]
  /\ UNCHANGED <<facade, wire, promise, handed, probe, bench, tracker>>

\* response.on('end', ...)
onEnd(c) ==
  /\ net[c].stream = "open"
  /\ _responseHandler(c, resp[c])
  /\ net' = [net EXCEPT ![c].stream = "ended"]
  /\ UNCHANGED <<facade, wire, resp, probe, bench, tracker>>

\* request.on('error', ...) without the assignment of the status code
onRequestErrorKeepStatus(c) ==
  /\ net[c].req = "sent"
  /\ net[c].stream \in {"none", "open"}
  /\ LET r == [resp[c] EXCEPT !.exception = Err("request")]
     IN /\ resp' = [resp EXCEPT ![c] = r]
        /\ _responseHandler(c, r)
  /\ net' = [net EXCEPT ![c].req = "failed"]
  /\ UNCHANGED <<facade, wire, probe, bench, tracker>>

\* request.on('error', ...) sending the request again instead of reporting
onRequestErrorResend(c) ==
  /\ net[c].req = "sent"
  /\ net[c].stream \in {"none", "open"}
  /\ wire' = [wire EXCEPT ![c] = @ \o @]
  /\ net' = [net EXCEPT ![c] = [NoNet EXCEPT !.req = "sent"]]
  /\ resp' = [resp EXCEPT ![c] = NewClientResponse]
  /\ UNCHANGED <<facade, promise, handed, probe, bench, tracker>>

\* request.on('error', ...): the connection fails before a response, or the
\* socket fails while the response stream is open
onRequestError(c) ==
  /\ net[c].req = "sent"
  /\ net[c].stream \in {"none", "open"}
  /\ LET r == [resp[c] EXCEPT !.statusCode = Num(500),
                              !.exception = Err("request")]
     IN /\ resp' = [resp EXCEPT ![c] = r]
        /\ _responseHandler(c, r)
  /\ net' = [net EXCEPT ![c].req = "failed"]
  /\ UNCHANGED <<facade, wire, probe, bench, tracker>>

Next ==
  \/ \E c \in Calls : createUser(c)
  \/ \E c \in Calls : deleteUser(c)
  \/ \E c \in Calls : patchUser(c)
  \/ \E c \in Calls : clientCredentialsGrant(c)
  \/ \E c \in Calls, status \in Statuses : onResponse(c, status)
  \/ \E c \in Calls, data \in ChunkTexts : onData(c, data)
  \/ \E c \in Calls, destroyed \in BOOLEAN : onResponseError(c, destroyed)
  \/ \E c \in Calls : onEnd(c)
  \/ \E c \in Calls : onRequestError(c)

Spec == Init /\ [][Next]_vars

(* ------------- tenant scoping: setTenantId between the calls ------------ *)

\* the facade operations without arguments of their own, setTenantId, and
\* every event of a request in flight
NextTenant ==
  \/ \E t \in TenantIds : setTenantId(t)
  \/ \E c \in Calls : retrieveTenants(c)
  \/ \E c \in Calls : checkChangePasswordUsingJWT(c)
  \/ \E c \in Calls : onResponse(c, 200)
  \/ \E c \in Calls : onData(c, <<"1">>)
  \/ \E c \in Calls, destroyed \in BOOLEAN : onResponseError(c, destroyed)
  \/ \E c \in Calls : onEnd(c)
  \/ \E c \in Calls : onRequestError(c)

SpecTenant == Init /\ [][NextTenant]_vars

(* ------------------------- two calls in flight -------------------------- *)

\* two calls of createUser on one facade, with every interleaving of the
\* events of their requests
PairCalls == {1, 2}

InitPair ==
  /\ facade = NewFusionAuthClient(ApiKey, GoodHost)
  /\ wire = [c \in PairCalls |-> <<>>]
  /\ resp = [c \in PairCalls |-> NewClientResponse]
  /\ net = [c \in PairCalls |-> NoNet]
  /\ promise = [c \in PairCalls |-> NoPromise]
  /\ handed = [c \in PairCalls |-> <<>>]
  /\ probe = NoProbe
  /\ bench = NoBench
  /\ tracker = NoTracker

\* the first call lets the server choose the id, the second gives one
PairUserId(c) == IF c = 1 THEN JNull ELSE Str(<<"abc">>)

NextPair ==
  \/ \E c \in PairCalls, request \in Requests :
       Issue(c, createUserChain(facade, PairUserId(c), request))
  \/ \E c \in PairCalls, status \in Statuses : onResponse(c, status)
  \/ \E c \in PairCalls : onData(c, <<"1">>)
  \/ \E c \in PairCalls, destroyed \in BOOLEAN : onResponseError(c, destroyed)
  \/ \E c \in PairCalls : onEnd(c)
  \/ \E c \in PairCalls : onRequestError(c)

SpecPair == InitPair /\ [][NextPair]_vars

(* ------------------- ClientResponse.wasSuccessful alone ---------------- *)

\* status codes tried on either side of the range 200..299
ProbeSpan == 30

ProbeStatuses ==
  {JNull} \cup {Num(n) : n \in ((200 - ProbeSpan)..(299 + ProbeSpan)) \cup {0, 404, 500}}

ProbeExceptions == {JNull, Err("request"), Err("response")}

InitCR ==
  /\ facade = NewFusionAuthClient(ApiKey, GoodHost)
  /\ wire = [c \in Calls |-> <<>>]
  /\ resp = [c \in Calls |-> NewClientResponse]
  /\ net = [c \in Calls |-> NoNet]
  /\ promise = [c \in Calls |-> NoPromise]
  /\ handed = [c \in Calls |-> <<>>]
  /\ bench = NoBench
  /\ tracker = NoTracker
  /\ probe \in {[env |-> [NewClientResponse EXCEPT !.statusCode = s, !.exception = e],
                 result |-> JUndef] : s \in ProbeStatuses, e \in ProbeExceptions}

CallWasSuccessful ==
  /\ probe.result = JUndef
  /\ probe' = [probe EXCEPT !.result = Bool(wasSuccessful(probe.env))]
  /\ UNCHANGED <<facade, wire, resp, net, promise, handed, bench, tracker>>

NextCR == CallWasSuccessful

SpecCR == InitCR /\ [][NextCR]_vars

(* ------------------------------ JWTManager ------------------------------ *)

\* seconds the clock may advance
MaxNow == 2

\* calls of revoke in one run
MaxRevokes == 2

Subjects == {"S1", "S2"}

Durations == {0, 1, 600}

InitJWT ==
  /\ facade = NewFusionAuthClient(ApiKey, GoodHost)
  /\ wire = [c \in Calls |-> <<>>]
  /\ resp = [c \in Calls |-> NewClientResponse]
  /\ net = [c \in Calls |-> NoNet]
  /\ promise = [c \in Calls |-> NoPromise]
  /\ handed = [c \in Calls |-> <<>>]
  /\ probe = NoProbe
  /\ bench = NoBench
  /\ tracker = NoTracker

\* revoke(subjectId, durationSeconds): the subject is revoked until
\* now + durationSeconds; an earlier record of the subject is replaced
revoke(subjectId, durationSeconds) ==
  /\ Len(tracker.revoked) < MaxRevokes
  /\ tracker' = [tracker EXCEPT
                   !.revokedJWTs = (subjectId :> tracker.now + durationSeconds) @@ @,
                   !.revoked = Append(@, [subject |-> subjectId, at |-> tracker.now,
                                          duration |-> durationSeconds])]
  /\ UNCHANGED <<facade, wire, resp, net, promise, handed, probe, bench>>

\* isValid counting a record that expires now as still revoking
isValidInclusive(subject) ==
  /\ tracker' = [tracker EXCEPT !.asked =
                   <<[subject |-> subject, at |-> tracker.now, seen |-> Len(tracker.revoked),
                      result |-> ~(/\ subject \in DOMAIN tracker.revokedJWTs
                                   /\ tracker.revokedJWTs[subject] >= tracker.now)]>>]
  /\ UNCHANGED <<facade, wire, resp, net, promise, handed, probe, bench>>

\* isValid(tokenClaims) for a token of the subject: false if the subject has
\* a record whose expiration is still in the future
isValid(subject) ==
  /\ tracker' = [tracker EXCEPT !.asked =
                   <<[subject |-> subject, at |-> tracker.now, seen |-> Len(tracker.revoked),
                      result |-> ~(/\ subject \in DOMAIN tracker.revokedJWTs
                                   /\ tracker.revokedJWTs[subject] > tracker.now)]>>]
  /\ UNCHANGED <<facade, wire, resp, net, promise, handed, probe, bench>>

\* a second passes
Tick ==
  /\ tracker.now < MaxNow
  /\ tracker' = [tracker EXCEPT !.now = @ + 1]
  /\ UNCHANGED <<facade, wire, resp, net, promise, handed, probe, bench>>

NextJWT ==
  \/ \E subjectId \in Subjects, durationSeconds \in Durations :
       revoke(subjectId, durationSeconds)
  \/ \E subject \in Subjects : isValid(subject)
  \/ Tick

SpecJWT == InitJWT /\ [][NextJWT]_vars

(* ------------------- RESTClient alone, call by call --------------------- *)

\* calls made on one RESTClient before go
MaxBenchCalls == 3

BenchHosts == {GoodHost, Str(GoodHost.s \o <<"/">>)}

\* the clients as a facade operation has them after uri, and a client that
\* has only its host
BenchClients ==
  {uri(_start(NewFusionAuthClient(ApiKey, h)), Str(<<"/", "api", "/", "user">>)) :
     h \in BenchHosts}
  \cup {setUrl(NewRESTClient, h) : h \in BenchHosts}

BenchSegments ==
  {JNull, JUndef, Str(<<"abc">>), Str(<<"/", "x">>), Num(1)}

ParamNames == {"ids", "q"}

BenchValues ==
  {JNull, JUndef, Str(<<"v">>), Bool(TRUE),
   Arr(<<Str(<<"a">>), Str(<<"b">>)>>), Arr(<<JNull>>)}

InitRC ==
  /\ facade = NewFusionAuthClient(ApiKey, GoodHost)
  /\ wire = [c \in Calls |-> <<>>]
  /\ resp = [c \in Calls |-> NewClientResponse]
  /\ net = [c \in Calls |-> NoNet]
  /\ promise = [c \in Calls |-> NoPromise]
  /\ handed = [c \in Calls |-> <<>>]
  /\ probe = NoProbe
  /\ tracker = NoTracker
  /\ bench \in {[rc |-> b, prev |-> b, log |-> <<>>, sent |-> <<>>] : b \in BenchClients}

\* a call that raised ends the chain
BenchOpen ==
  bench.sent = <<>> /\ Len(bench.log) < MaxBenchCalls /\ ~bench.rc.thrown

CallUrlSegment(segment) ==
  /\ BenchOpen
  /\ bench' = [bench EXCEPT
                 !.rc = urlSegment(bench.rc, segment),
                 !.prev = bench.rc,
                 !.log = Append(@, [op |-> "urlSegment", name |-> "", value |-> segment])]
  /\ UNCHANGED <<facade, wire, resp, net, promise, handed, probe, tracker>>

CallUrlParameter(name, value) ==
  /\ BenchOpen
  /\ bench' = [bench EXCEPT
                 !.rc = urlParameter(bench.rc, name, value),
                 !.prev = bench.rc,
                 !.log = Append(@, [op |-> "urlParameter", name |-> name, value |-> value])]
  /\ UNCHANGED <<facade, wire, resp, net, promise, handed, probe, tracker>>

\* go up to url.parse: sent is the restUrl the request is made from
CallGo ==
  /\ bench.sent = <<>>
  /\ LET b == GoUrl(bench.rc)
     IN bench' = [bench EXCEPT !.rc = b, !.prev = bench.rc, !.sent = <<b.restUrl>>]
  /\ UNCHANGED <<facade, wire, resp, net, promise, handed, probe, tracker>>

NextRC ==
  \/ \E segment \in BenchSegments : CallUrlSegment(segment)
  \/ \E name \in ParamNames, value \in BenchValues : CallUrlParameter(name, value)
  \/ CallGo

SpecRC == InitRC /\ [][NextRC]_vars

(* ------------- RESTClient alone: the URL and the credentials ----------- *)

Urls == {JNull, JUndef, GoodHost}

Uris == {JNull, Str(<<"/", "api", "/", "user">>)}

Usernames == {JNull, JUndef, Str(<<>>), Str(<<"u", "s", "e", "r">>), Str(<<"a">>)}

Passwords ==
  {JNull, Str(<<>>), Str(<<"s", "e", "c", "r", "e", "t">>), Str(<<"b">>),
   Str(<<"p", "w">>)}

\* a client as the constructor leaves it, and one that _start has prepared
BuilderClients == {NewRESTClient, _start(NewFusionAuthClient(ApiKey, GoodHost))}

InitBuilder ==
  /\ facade = NewFusionAuthClient(ApiKey, GoodHost)
  /\ wire = [c \in Calls |-> <<>>]
  /\ resp = [c \in Calls |-> NewClientResponse]
  /\ net = [c \in Calls |-> NoNet]
  /\ promise = [c \in Calls |-> NoPromise]
  /\ handed = [c \in Calls |-> <<>>]
  /\ probe = NoProbe
  /\ tracker = NoTracker
  /\ bench \in {[rc |-> b, prev |-> b, log |-> <<>>, sent |-> <<>>] : b \in BuilderClients}

CallSetUrl(url) ==
  /\ BenchOpen
  /\ bench' = [bench EXCEPT
                 !.rc = setUrl(bench.rc, url),
                 !.prev = bench.rc,
                 !.log = Append(@, [op |-> "setUrl", name |-> "", value |-> url])]
  /\ UNCHANGED <<facade, wire, resp, net, promise, handed, probe, tracker>>

CallUri(u) ==
  /\ BenchOpen
  /\ bench' = [bench EXCEPT
                 !.rc = uri(bench.rc, u),
                 !.prev = bench.rc,
                 !.log = Append(@, [op |-> "uri", name |-> "", value |-> u])]
  /\ UNCHANGED <<facade, wire, resp, net, promise, handed, probe, tracker>>

CallBasicAuthorization(username, password) ==
  /\ BenchOpen
  /\ bench' = [bench EXCEPT
                 !.rc = basicAuthorization(bench.rc, username, password),
                 !.prev = bench.rc,
                 !.log = Append(@, [op |-> "basicAuthorization", name |-> "",
                                    value |-> Arr(<<username, password>>)])]
  /\ UNCHANGED <<facade, wire, resp, net, promise, handed, probe, tracker>>

NextBuilder ==
  \/ \E url \in Urls : CallSetUrl(url)
  \/ \E u \in Uris : CallUri(u)
  \/ \E segment \in BenchSegments : CallUrlSegment(segment)
  \/ \E username \in Usernames, password \in Passwords :
       CallBasicAuthorization(username, password)

SpecBuilder == InitBuilder /\ [][NextBuilder]_vars

(* ---------------- RESTClient alone: go, and go once more ---------------- *)

UrlWithQuery == Str(CollectionPath \o <<"?", "a", "=", "1">>)

\* a client as deleteUser has it after uri, and one whose URL has a query
GoClients ==
  {uri(_start(NewFusionAuthClient(ApiKey, GoodHost)), Str(<<"/", "api", "/", "user">>)),
   setMethod(setUrl(NewRESTClient, UrlWithQuery), "GET")}

GoValues == {JNull, Str(<<"v">>), Arr(<<Str(<<"a">>), Str(<<"b">>)>>)}

InitGo ==
  /\ facade = NewFusionAuthClient(ApiKey, GoodHost)
  /\ wire = [c \in PairCalls |-> <<>>]
  /\ resp = [c \in PairCalls |-> NewClientResponse]
  /\ net = [c \in PairCalls |-> NoNet]
  /\ promise = [c \in PairCalls |-> NoPromise]
  /\ handed = [c \in PairCalls |-> <<>>]
  /\ probe = NoProbe
  /\ tracker = NoTracker
  /\ bench \in {[rc |-> b, prev |-> b, log |-> <<>>, sent |-> <<>>] : b \in GoClients}

\* go(responseHandler) called on the client for the c-th time: the whole of
\* go, with the request it makes and the ClientResponse it creates; the
\* handler is the caller's, no promise is involved
go(c) ==
  /\ wire[c] = <<>>
  /\ \A d \in PairCalls : d < c => wire[d] # <<>>
  /\ LET b == GoUrl(bench.rc)
     IN /\ ~b.thrown
        /\ bench' = [bench EXCEPT !.rc = b, !.prev = bench.rc,
                                  !.sent = Append(@, b.restUrl)]
        /\ wire' = [wire EXCEPT ![c] = <<GoOptions(b)>>]
  /\ resp' = [resp EXCEPT ![c] = NewClientResponse]
  /\ net' = [net EXCEPT ![c].req = "sent"]
  /\ UNCHANGED <<facade, promise, handed, probe, tracker>>

NextGo ==
  \/ \E name \in ParamNames, value \in GoValues : CallUrlParameter(name, value)
  \/ \E c \in PairCalls : go(c)
  \/ \E c \in PairCalls, status \in Statuses : onResponse(c, status)
  \/ \E c \in PairCalls : onData(c, <<"1">>)
  \/ \E c \in PairCalls : onEnd(c)

SpecGo == InitGo /\ [][NextGo]_vars

(* -------------------------------- claims ------------------------------- *)

Settled(c) == promise[c].state \in {"resolved", "rejected"}

Is2xx(status) == status.t = "number" /\ status.n \in 200..299

\* C1: once the response handler has been invoked for a call, the promise is
\* resolved with the call's envelope if that envelope was successful when it
\* was passed, and rejected with it otherwise; a resolved promise always
\* comes from an envelope with a 2xx status and no exception.
C1_HandlerSettlesByWasSuccessful ==
  \A c \in Calls :
    /\ handed[c] # <<>> =>
         /\ promise[c].value = EnvelopeOf(c)
         /\ promise[c].state =
              IF Is2xx(handed[c][1].statusCode) /\ handed[c][1].exception = JNull
              THEN "resolved" ELSE "rejected"
    /\ promise[c].state = "resolved" =>
         /\ handed[c] # <<>>
         /\ Is2xx(handed[c][1].statusCode)
         /\ handed[c][1].exception = JNull
    /\ (promise[c].state = "rejected" /\ promise[c].value = EnvelopeOf(c)) =>
         /\ handed[c] # <<>>
         /\ ~(Is2xx(handed[c][1].statusCode) /\ handed[c][1].exception = JNull)

C1_Witness ==
  \E c \in Calls :
    /\ promise[c].state = "resolved"
    /\ handed[c][1].statusCode = Num(200)
    /\ handed[c][1].successResponse # JNull

\* C2: wasSuccessful() returns true exactly when statusCode is a number in
\* 200..299 and exception is null; a null status gives false.
C2_WasSuccessfulIffRangeAndNoException ==
  probe.result # JUndef =>
    (probe.result = Bool(TRUE)
       <=> /\ probe.env.statusCode.t = "number"
           /\ probe.env.statusCode.n >= 200
           /\ probe.env.statusCode.n <= 299
           /\ probe.env.exception = JNull)

C2_Witness ==
  /\ probe.result = Bool(TRUE)
  /\ probe.env.statusCode = Num(299)

\* C3: the completion callback is invoked at most once per request.
C3_HandlerAtMostOnce == \A c \in Calls : Len(handed[c]) <= 1

\* C4: once the response stream has ended or been destroyed by an error, or
\* the request has failed, the completion callback has been invoked and the
\* promise is settled.
C4_TerminatedImpliesCompleted ==
  \A c \in Calls :
    (net[c].stream \in {"ended", "closed"} \/ net[c].req = "failed") =>
      (handed[c] # <<>> /\ Settled(c))

\* C5: a settled promise is settled with the ClientResponse of its call.
C5_SettledWithEnvelope ==
  \A c \in Calls : Settled(c) => promise[c].value = EnvelopeOf(c)

\* C6: after a request-level error before any response, the envelope holds
\* the error, statusCode 500, wasSuccessful() is false, and the promise is
\* rejected with that envelope.
C6_ConnectionFailureRejectsWith500 ==
  \A c \in Calls :
    (net[c].req = "failed" /\ net[c].stream = "none") =>
      /\ resp[c].exception = Err("request")
      /\ resp[c].statusCode = Num(500)
      /\ ~wasSuccessful(resp[c])
      /\ handed[c] = <<resp[c]>>
      /\ promise[c] = [state |-> "rejected", value |-> EnvelopeOf(c)]

C6_Witness ==
  \E c \in Calls :
    /\ net[c].req = "failed"
    /\ net[c].stream = "none"
    /\ promise[c].state = "rejected"
    /\ resp[c].statusCode = Num(500)

C8_AtMostOneBodyHanded ==
  \A c \in Calls : \A i \in 1..Len(handed[c]) :
    handed[c][i].successResponse = JNull \/ handed[c][i].errorResponse = JNull

\* C9: in every envelope state, a non-null exception implies that
\* successResponse and errorResponse are both null.
C9_ExceptionImpliesNoBody ==
  \A c \in Calls :
    resp[c].exception # JNull =>
      (resp[c].successResponse = JNull /\ resp[c].errorResponse = JNull)

\* C10: in every envelope passed to the completion callback, a non-null
\* exception implies statusCode 500.
C10_ExceptionImplies500 ==
  \A c \in Calls : \A i \in 1..Len(handed[c]) :
    handed[c][i].exception # JNull => handed[c][i].statusCode = Num(500)

TenantHeader == "X-FusionAuth-TenantId"

HeadersOf(w) == w[1].headers

\* C11: a call that issues a request attaches X-FusionAuth-TenantId exactly
\* when the facade's tenantId is neither null nor undefined at that moment,
\* with the value tenantId has then; authenticated and anonymous alike.
C11_TenantHeaderAsAtIssue ==
  [][\A c \in Calls :
       (wire[c] = <<>> /\ wire'[c] # <<>>) =>
         /\ (TenantHeader \in DOMAIN HeadersOf(wire'[c])) <=> ~IsNullish(facade.tenantId)
         /\ (TenantHeader \in DOMAIN HeadersOf(wire'[c])) =>
              HeadersOf(wire'[c])[TenantHeader] = facade.tenantId]_vars

C11_Witness ==
  \E c \in Calls :
    /\ wire[c] # <<>>
    /\ TenantHeader \in DOMAIN HeadersOf(wire[c])
    /\ HeadersOf(wire[c])[TenantHeader] = Str(<<"T1">>)
    /\ facade.tenantId = Str(<<"T2">>)

\* C12: the request of a call already issued never changes afterwards,
\* whatever setTenantId calls and network events follow.
C12_InFlightRequestKeepsHeaders ==
  [][\A c \in Calls : wire[c] # <<>> => wire'[c] = wire[c]]_vars

C12_Witness ==
  \E c \in Calls :
    /\ wire[c] # <<>>
    /\ promise[c].state = "pending"
    /\ net[c].stream = "open"
    /\ TenantHeader \notin DOMAIN HeadersOf(wire[c])
    /\ facade.tenantId = Str(<<"T1">>)

\* C13: a request built by _start carries Authorization equal to the apiKey;
\* a request built by _startAnonymous carries the caller's 'Bearer <token>'
\* and never the apiKey.
C13_ApiKeyOnlyOnAuthenticatedCalls ==
  [][\A c \in Calls :
       /\ (retrieveTenants(c) /\ wire'[c] # <<>>) =>
            /\ "Authorization" \in DOMAIN HeadersOf(wire'[c])
            /\ HeadersOf(wire'[c])["Authorization"] = facade.apiKey
       /\ (checkChangePasswordUsingJWT(c) /\ wire'[c] # <<>>) =>
            \A k \in DOMAIN HeadersOf(wire'[c]) :
              /\ HeadersOf(wire'[c])[k] # facade.apiKey
              /\ k = "Authorization" =>
                   HeadersOf(wire'[c])[k] \in {Bearer(j) : j \in JWTs}]_vars

C13_Witness ==
  \E c \in Calls :
    /\ wire[c] # <<>>
    /\ "Authorization" \in DOMAIN HeadersOf(wire[c])
    /\ HeadersOf(wire[c])["Authorization"] = Bearer(Str(<<"jwt">>))
    /\ TenantHeader \in DOMAIN HeadersOf(wire[c])

C15_PatchIssuesPatchRequest ==
  [][\A c \in Calls :
       patchUser(c) =>
         /\ wire'[c] # <<>>
         /\ wire'[c][1].method = Str(<<"PATCH">>)
         /\ wire'[c][1].body # JNull]_vars

\* C16: clientCredentialsGrant issues a POST with a form-encoded body and the
\* matching Content-Type header.
C16_FormBodyIssuesFormPost ==
  [][\A c \in Calls :
       clientCredentialsGrant(c) =>
         /\ wire'[c] # <<>>
         /\ wire'[c][1].method = Str(<<"POST">>)
         /\ wire'[c][1].body # JNull
         /\ "Content-Type" \in DOMAIN HeadersOf(wire'[c])
         /\ HeadersOf(wire'[c])["Content-Type"] =
              Str(<<"application/x-www-form-urlencoded">>)]_vars

\* C17: deleteUser with a null id sends no HTTP request.
C17_NullIdSendsNoRequest ==
  [][\A c \in Calls :
       Issue(c, deleteUserChain(facade, JNull)) =>
         (wire'[c] = <<>> /\ net'[c].req = "none")]_vars

(* claims about the RESTClient alone *)

LastCall == bench.log[Len(bench.log)]

\* the last call on the client was urlSegment, and go has not run
AfterUrlSegment ==
  bench.log # <<>> /\ bench.sent = <<>> /\ LastCall.op = "urlSegment"

CollectionUrl == Str(<<"http:", "/", "/", "h", "/", "api", "/", "user">>)

\* C18: urlSegment(null) and urlSegment(undefined) leave every field of the
\* client as it was, and createUser(null, request) requests the bare
\* collection path.
C18_NullSegmentIsNoOp ==
  /\ (AfterUrlSegment /\ LastCall.value \in {JNull, JUndef}) => bench.rc = bench.prev
  /\ \A request \in Requests :
       LET b == GoUrl(createUserChain(NewFusionAuthClient(ApiKey, GoodHost),
                                       JNull, request))
       IN ~b.thrown /\ GoOptions(b).path = Str(<<"/", "api", "/", "user">>)

C18_Witness ==
  /\ AfterUrlSegment
  /\ LastCall.value = JNull
  /\ bench.rc.restUrl = CollectionUrl
  /\ bench.rc.parameters # JNull

\* the number of places where two separators are adjacent
DoubleSlashes(s) ==
  Cardinality({i \in 1..(Len(s) - 1) : s[i] = "/" /\ s[i + 1] = "/"})

\* C19: for every non-null segment, urlSegment adds no double separator.
C19_NoDoubleSeparator ==
  (AfterUrlSegment /\ ~(LastCall.value \in {JNull, JUndef})) =>
    DoubleSlashes(bench.rc.restUrl.s) = DoubleSlashes(bench.prev.restUrl.s)

(* the query string go sends, read back *)

RECURSIVE SplitOn(_, _)
SplitOn(s, sep) ==
  IF \A i \in 1..Len(s) : s[i] # sep THEN <<s>>
  ELSE LET i == CHOOSE i \in 1..Len(s) :
                  s[i] = sep /\ \A j \in 1..(i - 1) : s[j] # sep
       IN <<SubSeq(s, 1, i - 1)>> \o SplitOn(SubSeq(s, i + 1, Len(s)), sep)

\* the tokens after the first '?', empty if there is none
QueryOf(s) ==
  IF \A i \in 1..Len(s) : s[i] # "?" THEN <<>>
  ELSE LET i == CHOOSE i \in 1..Len(s) :
                  s[i] = "?" /\ \A j \in 1..(i - 1) : s[j] # "?"
       IN SubSeq(s, i + 1, Len(s))

Pairs(s) == SplitOn(QueryOf(s), "&")

RECURSIVE ValuesOfName(_, _)
ValuesOfName(pairs, name) ==
  IF pairs = <<>> THEN <<>>
  ELSE LET p == Head(pairs)
           rest == ValuesOfName(Tail(pairs), name)
       IN IF Len(p) >= 2 /\ p[1] = name /\ p[2] = "="
          THEN <<SubSeq(p, 3, Len(p))>> \o rest
          ELSE rest

\* the text of a value as it is expected in the query string
ValueText(v) ==
  CASE v.t = "string" -> v.s
    [] v.t = "boolean" -> IF v.b THEN <<"true">> ELSE <<"false">>
    [] OTHER -> <<>>

RECURSIVE TextsOf(_, _)
TextsOf(items, withNull) ==
  IF items = <<>> THEN <<>>
  ELSE IF Head(items) \in {JNull, JUndef} /\ ~withNull
    THEN TextsOf(Tail(items), withNull)
  ELSE <<ValueText(Head(items))>> \o TextsOf(Tail(items), withNull)

\* the values added for name by the calls of log, in order; withNull tells
\* whether a null element of a collection counts
RECURSIVE Added(_, _, _)
Added(log, name, withNull) ==
  IF log = <<>> THEN <<>>
  ELSE LET e == Head(log)
           rest == Added(Tail(log), name, withNull)
       IN IF e.op # "urlParameter" \/ e.name # name \/ e.value \in {JNull, JUndef}
          THEN rest
          ELSE IF e.value.t = "array" THEN TextsOf(e.value.items, withNull) \o rest
          ELSE <<ValueText(e.value)>> \o rest

WellFormedPairs(s) ==
  \A i \in 1..Len(Pairs(s)) :
    LET p == Pairs(s)[i]
    IN p = <<>> \/ (Len(p) >= 2 /\ p[1] \in ParamNames /\ p[2] = "=")

\* C20 as claimed: after go, the query string has for each name one
\* name=value per non-null value added, in order, and a name that was given
\* no non-null value does not appear.
C20_QueryHasNonNullValuesAdded ==
  bench.sent # <<>> =>
    /\ WellFormedPairs(bench.sent[1].s)
    /\ \A name \in ParamNames :
         /\ ValuesOfName(Pairs(bench.sent[1].s), name) = Added(bench.log, name, FALSE)
         /\ Added(bench.log, name, FALSE) = <<>> =>
              ~Contains(QueryOf(bench.sent[1].s), name)

\* C20 amended: as claimed, except that a null element inside a collection
\* value is not skipped: it adds one occurrence 'name=' with an empty value.
C20_QueryHasValuesAdded ==
  bench.sent # <<>> =>
    /\ WellFormedPairs(bench.sent[1].s)
    /\ \A name \in ParamNames :
         /\ ValuesOfName(Pairs(bench.sent[1].s), name) = Added(bench.log, name, TRUE)
         /\ Added(bench.log, name, TRUE) = <<>> =>
              ~Contains(QueryOf(bench.sent[1].s), name)

C20_Witness ==
  /\ bench.sent # <<>>
  /\ Len(bench.log) = 3
  /\ ValuesOfName(Pairs(bench.sent[1].s), "ids") = <<<<"a">>, <<"b">>, <<"v">>>>
  /\ ~Contains(QueryOf(bench.sent[1].s), "q")
  /\ \E i \in 1..3 : bench.log[i].name = "q" /\ bench.log[i].value = JNull

(* claims about the URL and the credentials of the RESTClient *)

AfterBasicAuthorization ==
  bench.log # <<>> /\ LastCall.op = "basicAuthorization"

Base64Index(ch) == CHOOSE i \in 1..64 : Base64Alphabet[i] = ch

\* the bytes a base64 text stands for
RECURSIVE Base64Decode(_)
Base64Decode(text) ==
  IF Len(text) < 4 THEN <<>>
  ELSE LET a == Base64Index(text[1]) - 1
           b == Base64Index(text[2]) - 1
       IN IF text[3] = "="
          THEN <<a * 4 + b \div 16>>
          ELSE LET c == Base64Index(text[3]) - 1
               IN IF text[4] = "="
                  THEN <<a * 4 + b \div 16, (b % 16) * 16 + c \div 4>>
                  ELSE LET d == Base64Index(text[4]) - 1
                       IN <<a * 4 + b \div 16, (b % 16) * 16 + c \div 4,
                            (c % 4) * 64 + d>>
                            \o Base64Decode(SubSeq(text, 5, Len(text)))

\* the Authorization header is 'Basic ' and the base64 text of
\* username:password
IsBasicHeaderOf(rc, username, password) ==
  /\ "Authorization" \in DOMAIN rc.headers
  /\ LET v == rc.headers["Authorization"]
         plain == Bytes(username.s \o <<":">> \o password.s)
     IN /\ v.t = "string"
        /\ Len(v.s) = 2 + 4 * ((Len(plain) + 2) \div 3)
        /\ SubSeq(v.s, 1, 2) = <<"Basic", " ">>
        /\ \A i \in 3..Len(v.s) :
             \/ \E k \in 1..64 : Base64Alphabet[k] = v.s[i]
             \/ v.s[i] = "=" /\ i >= Len(v.s) - 1
        /\ Base64Decode(SubSeq(v.s, 3, Len(v.s))) = plain
  /\ rc = [bench.prev EXCEPT !.headers = rc.headers]
  /\ \A k \in DOMAIN bench.prev.headers :
       k # "Authorization" =>
         (k \in DOMAIN rc.headers /\ rc.headers[k] = bench.prev.headers[k])

\* C21 as claimed: basicAuthorization sets the header when both arguments
\* are present (neither null nor undefined) and leaves the client as it was
\* otherwise.
C21_BasicHeaderWhenBothPresent ==
  AfterBasicAuthorization =>
    LET username == LastCall.value.items[1]
        password == LastCall.value.items[2]
    IN IF ~IsNullish(username) /\ ~IsNullish(password)
       THEN IsBasicHeaderOf(bench.rc, username, password)
       ELSE bench.rc = bench.prev

\* C21 amended: basicAuthorization sets the header when both arguments are
\* present and not the empty string, and leaves the client as it was when
\* either is null, undefined or empty; it raises nothing.
C21_BasicHeaderWhenBothNonEmpty ==
  AfterBasicAuthorization =>
    LET username == LastCall.value.items[1]
        password == LastCall.value.items[2]
    IN /\ ~bench.rc.thrown
       /\ IF /\ ~IsNullish(username) /\ username # Str(<<>>)
             /\ ~IsNullish(password) /\ password # Str(<<>>)
          THEN IsBasicHeaderOf(bench.rc, username, password)
          ELSE bench.rc = bench.prev

\* basicAuthorization('user', 'secret') gives 'Basic dXNlcjpzZWNyZXQ='
C21_Witness ==
  /\ AfterBasicAuthorization
  /\ LastCall.value = Arr(<<Str(<<"u", "s", "e", "r">>),
                            Str(<<"s", "e", "c", "r", "e", "t">>)>>)
  /\ bench.rc.headers["Authorization"] =
       Str(<<"Basic", " ", "d", "X", "N", "l", "c", "j", "p", "z", "Z", "W", "N",
             "y", "Z", "X", "Q", "=">>)

\* C29: setUrl(null), and uri or urlSegment on a client that has no URL yet,
\* leave the client as it was and raise nothing.
C29_NoUrlIsNoOp ==
  bench.log # <<>> =>
    /\ (LastCall.op = "setUrl" /\ LastCall.value = JNull) => bench.rc = bench.prev
    /\ (LastCall.op \in {"uri", "urlSegment"} /\ IsNullish(bench.prev.restUrl)) =>
         bench.rc = bench.prev

\* a failure has been seen for call c: a status outside 2xx, a failed
\* request, or a rejected promise
Failed(c) ==
  \/ promise[c].state = "rejected"
  \/ net[c].req = "failed"
  \/ (net[c].real # JNull /\ ~Is2xx(net[c].real))

C25_BodyIsParseOfAllChunks ==
  \A c \in Calls :
    (net[c].stream = "ended" /\ net[c].chunks > 0) =>
      \/ resp[c].successResponse = ParseOrRaw(net[c].received)
      \/ resp[c].errorResponse = ParseOrRaw(net[c].received)

\* C26: once the completion callback has been invoked for a call, no field of
\* the call's envelope changes.
C26_EnvelopeFrozenAfterCompletion ==
  [][\A c \in Calls : handed[c] # <<>> => resp'[c] = resp[c]]_vars

\* C27: a chunk that is not valid JSON, received while exception is null, is
\* stored as it was received in the field the status code selects; the
\* exception stays null, the status and the other field stay as they were and
\* the promise is not settled by it.  When the stream of such a response ends
\* the promise is resolved for a 2xx status and rejected otherwise.
C27_MalformedBodyIsKeptRaw ==
  [][\A c \in Calls :
       /\ \A data \in ChunkTexts :
            (onData(c, data) /\ ~IsJSON(data) /\ resp[c].exception = JNull) =>
              /\ resp'[c].exception = JNull
              /\ resp'[c].statusCode = resp[c].statusCode
              /\ promise'[c] = promise[c]
              /\ IF Is2xx(net[c].real)
                 THEN /\ resp'[c].successResponse = Str(data)
                      /\ resp'[c].errorResponse = resp[c].errorResponse
                 ELSE /\ resp'[c].errorResponse = Str(data)
                      /\ resp'[c].successResponse = resp[c].successResponse
       /\ (/\ net'[c].stream = "ended"
           /\ resp'[c].exception = JNull
           /\ Str(<<"]">>) \in {resp'[c].successResponse, resp'[c].errorResponse}) =>
            promise'[c] =
              [state |-> IF Is2xx(net'[c].real) THEN "resolved" ELSE "rejected",
               value |-> EnvelopeOf(c)]]_vars

C27_Witness ==
  \E c \in Calls :
    /\ net[c].stream = "ended"
    /\ net[c].received = <<"]">>
    /\ resp[c] = [NewClientResponse EXCEPT !.statusCode = Num(200),
                                           !.successResponse = Str(<<"]">>)]
    /\ promise[c].state = "resolved"

\* all that belongs to call c: its request, envelope, promise and the
\* envelopes handed to its handler
CallState(c) == <<wire[c], resp[c], promise[c], handed[c]>>

\* the requests createUser builds on a client of its own
OwnRequests ==
  {GoOptions(GoUrl(createUserChain(facade, userId, request))) :
     userId \in UserIds, request \in Requests}

\* C23: with two calls in flight, a step that changes the request, envelope
\* or promise of one call leaves those of the other call as they were; the
\* request of a call is the one built on its own client, its handler is
\* given its own envelope and its promise is settled with that envelope.
C23_CallsAreIsolated ==
  [][\A c \in PairCalls :
       /\ \A d \in PairCalls \ {c} :
            CallState(c)' # CallState(c) => CallState(d)' = CallState(d)
       /\ wire'[c] # <<>> => wire'[c][1] \in OwnRequests
       /\ handed'[c] # handed[c] => handed'[c] = Append(handed[c], resp'[c])
       /\ Settled(c)' => promise'[c].value = EnvelopeOf(c)]_vars

\* both calls were pending together, with different URLs, and were settled
\* differently
C23_Witness ==
  /\ wire[1] # <<>> /\ wire[2] # <<>>
  /\ wire[1][1].path # wire[2][1].path
  /\ promise[1].state = "resolved"
  /\ promise[2].state = "rejected"
  /\ resp[1].statusCode = Num(200)
  /\ resp[2].statusCode = Num(404)
  /\ net[1].chunks > 0 /\ net[2].chunks > 0

\* the first seen calls of revoke that were for the subject, in order
RevokesOf(subject, seen) ==
  SelectSeq(SubSeq(tracker.revoked, 1, seen), LAMBDA r : r.subject = subject)

LastSent == bench.sent[Len(bench.sent)].s

\* the pieces between '&' of the query each have a name, one '=' and a value
SeparatedPairs(s) ==
  \A i \in 1..Len(Pairs(s)) :
    LET p == Pairs(s)[i]
    IN /\ Len(p) >= 2
       /\ p[2] = "="
       /\ \A j \in 1..Len(p) : p[j] = "=" => j = 2

\* C28: when go has serialized parameters onto the URL, they follow a '&' if
\* the URL had a query string and a '?' if it had none, and in the URL sent
\* every parameter is separated from its neighbour.
C28_QueryJoinedWithSeparator ==
  (bench.sent # <<>> /\ bench.prev.parameters # JNull) =>
    LET before == bench.prev.restUrl.s
    IN /\ Len(LastSent) > Len(before)
       /\ SubSeq(LastSent, 1, Len(before)) = before
       /\ LastSent[Len(before) + 1] = (IF Contains(before, "?") THEN "&" ELSE "?")
       /\ SeparatedPairs(LastSent)

\* C30: go may be called again on the same client; with parameters the URL
\* of the second request is the URL of the first followed once more by the
\* serialized parameters, without a separator, so that its query is no longer
\* made of separated pairs; each go makes a request of its own, and the
\* ClientResponse of the second request is new whatever the first holds.
C30_SecondGoRepeatsQuery ==
  (Len(bench.sent) = 2 /\ bench.rc.parameters # JNull) =>
    /\ \E k \in 2..Len(bench.sent[1].s) :
         LET q == SubSeq(bench.sent[1].s, k, Len(bench.sent[1].s))
         IN /\ q[1] \in ParamNames
            /\ Len(q) >= 2 /\ q[2] = "="
            /\ SubSeq(bench.sent[1].s, 1, k - 1) \in {CollectionPath \o <<"?">>, UrlWithQuery.s}
            /\ bench.sent[2].s = bench.sent[1].s \o q
    /\ ~SeparatedPairs(bench.sent[2].s)
    /\ Len(wire[1]) = 1 /\ Len(wire[2]) = 1
    /\ wire[1][1].path = UrlPath(bench.sent[1].s)
    /\ wire[2][1].path = UrlPath(bench.sent[2].s)
    /\ wire[1][1].path # wire[2][1].path
    /\ net[2].stream = "none" => resp[2] = NewClientResponse
    /\ \A c \in PairCalls : \A i \in 1..Len(handed[c]) : handed[c][i] = resp[c]

\* the first request has been answered and its envelope filled when the
\* second go has just been made
C30_Witness ==
  /\ Len(bench.sent) = 2
  /\ bench.sent[1] = Str(CollectionPath \o <<"?", "ids", "=", "v">>)
  /\ bench.sent[2] = Str(CollectionPath \o <<"?", "ids", "=", "v", "ids", "=", "v">>)
  /\ resp[1].statusCode = Num(200)
  /\ resp[1].successResponse = Num(1)
  /\ handed[1] # <<>>
  /\ resp[2] = NewClientResponse
  /\ net[2].req = "sent"

====
